---------------------------- MODULE Spec2Model ----------------------------
(***************************************************************************)
(* Model of src/src/data_profiler.py: the DataProfiler class.              *)
(*                                                                         *)
(* A DataProfiler holds a reference to the caller's DataFrame (self.df)    *)
(* and an insertion-ordered dict self.profile.  generate_profile() walks   *)
(* the columns and stores one profile dict per column;                     *)
(* suggest_quality_rules() walks self.profile and builds the rule dict,    *)
(* reading self.df again for the count of zeros.                           *)
(*                                                                         *)
(* Numbers.  float64 values are modelled as exact numbers:                 *)
(*   - a rational is a pair <<n, d>> in lowest terms with d > 0;           *)
(*   - NaN is the pair <<0, 0>>;                                           *)
(*   - a value of the form a + k*sqrt(v) (the standard deviation and the   *)
(*     bounds derived from it) is a triple <<a, k, v>> with a, v rational. *)
(* Rounding error of float64 arithmetic is not modelled.                   *)
(*                                                                         *)
(* Cells.  A cell of a column is <<>> (None / NaN / NaT) or <<v>> with v   *)
(* an integer: the number itself in a float64 column, the ordinal of the   *)
(* timestamp in a datetime64[ns] column, and in an object column the       *)
(* Python int 0 for <<0>> and a string for any other <<v>>.  An object     *)
(* column may also hold the cell UnhashableCell, a Python list, which      *)
(* pandas cannot hash.                                                     *)
(***************************************************************************)
EXTENDS Integers, Sequences, FiniteSets, TLC

VARIABLES
    df,        \* self.df: the caller's table, a sequence of columns
    profile,   \* self.profile: ordered dict, a sequence of <<column, profile>>
    profiled,  \* generate_profile has returned on this DataProfiler object
    gens,      \* the outcomes of the last two generate_profile calls
    sugs,      \* the outcomes of the last two suggest_quality_rules calls
    edits,     \* how many times the caller has changed the table since
    ties       \* the order in which this build's sort leaves equal counts

vars == <<df, profile, profiled, gens, sugs, edits, ties>>

-----------------------------------------------------------------------------
(* Bounds of the model *)

MaxCols == 2      \* most columns of a table
MaxFill == 20     \* longest run of one repeated cell closing a column
MaxEdits == 1     \* most changes the caller makes to the table
MaxRows == 5      \* most cells of a column of arbitrary numeric values

-----------------------------------------------------------------------------
(* Integer helpers *)

Abs(x) == IF x < 0 THEN -x ELSE x

RECURSIVE GCD(_, _)
GCD(a, b) == IF b = 0 THEN a ELSE GCD(b, a % b)

RECURSIVE ISqrtIn(_, _, _)
\* bisection, with lo * lo <= n < hi * hi
ISqrtIn(n, lo, hi) ==
    IF hi - lo <= 1 THEN lo
    ELSE LET mid == (lo + hi) \div 2
         IN  IF mid * mid <= n THEN ISqrtIn(n, mid, hi) ELSE ISqrtIn(n, lo, mid)

\* floor of the square root of n, 0 <= n < 2^31
ISqrt(n) == ISqrtIn(n, 0, IF n < 46340 THEN n + 1 ELSE 46341)

IsSquare(n) == n >= 0 /\ ISqrt(n) * ISqrt(n) = n

-----------------------------------------------------------------------------
(* Rationals with NaN *)

NaN == <<0, 0>>

IsNaN(x) == x[2] = 0

Rat(n, d) ==
    IF d = 0 THEN NaN
    ELSE LET s == IF d < 0 THEN -1 ELSE 1
             g == GCD(Abs(n), Abs(d))
         IN  <<(s * n) \div g, (s * d) \div g>>

RInt(n) == <<n, 1>>

\* the numerators of x and y over their least common denominator
Num1(x, y) == x[1] * (y[2] \div GCD(x[2], y[2]))

Num2(x, y) == y[1] * (x[2] \div GCD(x[2], y[2]))

Lcd(x, y) == x[2] * (y[2] \div GCD(x[2], y[2]))

RAdd(x, y) == IF IsNaN(x) \/ IsNaN(y) THEN NaN
              ELSE Rat(Num1(x, y) + Num2(x, y), Lcd(x, y))

RSub(x, y) == IF IsNaN(x) \/ IsNaN(y) THEN NaN
              ELSE Rat(Num1(x, y) - Num2(x, y), Lcd(x, y))

RMul(x, y) ==
    IF IsNaN(x) \/ IsNaN(y) THEN NaN
    ELSE LET g1 == GCD(Abs(x[1]), y[2])
             g2 == GCD(Abs(y[1]), x[2])
         IN  Rat((x[1] \div g1) * (y[1] \div g2), (x[2] \div g2) * (y[2] \div g1))

\* IEEE comparisons: every comparison with NaN is false
RLt(x, y) == ~IsNaN(x) /\ ~IsNaN(y) /\ Num1(x, y) < Num2(x, y)

RLe(x, y) == ~IsNaN(x) /\ ~IsNaN(y) /\ Num1(x, y) <= Num2(x, y)

-----------------------------------------------------------------------------
(* Numbers a + k*sqrt(v) *)

SurdNaN == <<NaN, 0, NaN>>

IsSurdNaN(s) == IsNaN(s[1])

\* a + k*sqrt(v), with a rational square root folded into the rational part
Surd(a, k, v) ==
    IF IsNaN(a) \/ IsNaN(v) THEN SurdNaN
    ELSE IF k = 0 \/ v[1] = 0 THEN <<a, 0, RInt(0)>>
    ELSE IF IsSquare(v[1]) /\ IsSquare(v[2])
         THEN <<RAdd(a, Rat(k * ISqrt(v[1]), ISqrt(v[2]))), 0, RInt(0)>>
    ELSE <<a, k, v>>

\* a + k*sqrt(v) <= r for a rational r
SurdLeRat(s, r) ==
    /\ ~IsSurdNaN(s) /\ ~IsNaN(r)
    /\ LET c  == RSub(r, s[1])                       \* k*sqrt(v) <= c
           k2 == RMul(RInt(s[2] * s[2]), s[3])       \* (k*sqrt(v))^2
           c2 == RMul(c, c)
       IN  IF s[2] >= 0
           THEN RLe(RInt(0), c) /\ RLe(k2, c2)
           ELSE RLe(RInt(0), c) \/ RLe(c2, k2)

\* r <= a + k*sqrt(v) for a rational r
RatLeSurd(r, s) ==
    /\ ~IsSurdNaN(s) /\ ~IsNaN(r)
    /\ SurdLeRat(<<RSub(RInt(0), s[1]), -s[2], s[3]>>, RSub(RInt(0), r))

-----------------------------------------------------------------------------
(* Cells and pandas Series operations *)

Null == <<>>

\* a Python list stored in an object column: hashing it raises TypeError
UnhashableCell == <<0, 0>>

\* Series.isnull() on one cell
IsNull(c) == c = Null

\* Series.dropna(): the non-null cells in column order
DropNa(s) == SelectSeq(s, LAMBDA c : ~IsNull(c))

\* SeqHead that keeps the last k, not the first
SeqTail(s, k) == IF Len(s) <= k THEN s ELSE SubSeq(s, Len(s) - k + 1, Len(s))

\* Series.head(k)
SeqHead(s, k) == IF Len(s) <= k THEN s ELSE SubSeq(s, 1, k)

\* the numbers of a sequence of non-null cells
Values(s) == [i \in 1..Len(s) |-> s[i][1]]

RECURSIVE SumTo(_, _)
SumTo(s, n) == IF n = 0 THEN 0 ELSE s[n] + SumTo(s, n - 1)

Sum(s) == SumTo(s, Len(s))

RECURSIVE SumSqTo(_, _)
SumSqTo(s, n) == IF n = 0 THEN 0 ELSE s[n] * s[n] + SumSqTo(s, n - 1)

SumSq(s) == SumSqTo(s, Len(s))

\* the numbers of s in ascending order
Sorted(s) == SortSeq(s, LAMBDA x, y : x < y)

\* Series.nunique(): the number of distinct non-null cells
NUnique(s) == Cardinality({s[i] : i \in {j \in 1..Len(s) : ~IsNull(s[j])}})

\* Series.min() / Series.max() of the non-null values, given in ascending
\* order; NaN when there is none
SeriesMin(srt) == IF srt = <<>> THEN NaN ELSE RInt(srt[1])

SeriesMax(srt) == IF srt = <<>> THEN NaN ELSE RInt(srt[Len(srt)])

\* Series.mean()
SeriesMean(xs) == IF xs = <<>> THEN NaN ELSE Rat(Sum(xs), Len(xs))

\* Series.quantile(num/den) of the non-null values, given in ascending order:
\* linear interpolation between the two order statistics around (n-1)*num/den
SeriesQuantile(srt, num, den) ==
    IF srt = <<>> THEN NaN
    ELSE LET n    == Len(srt)
             lo   == ((n - 1) * num) \div den
             frac == Rat(((n - 1) * num) % den, den)
             hi   == IF lo + 2 <= n THEN lo + 2 ELSE n
         IN  RAdd(RInt(srt[lo + 1]),
                  RMul(frac, RInt(srt[hi] - srt[lo + 1])))

\* Series.median() of the non-null values, given in ascending order
SeriesMedian(srt) ==
    IF srt = <<>> THEN NaN
    ELSE LET n == Len(srt)
         IN  IF n % 2 = 1 THEN RInt(srt[(n + 1) \div 2])
             ELSE Rat(srt[n \div 2] + srt[n \div 2 + 1], 2)

\* the variance under Series.std(): pandas' default ddof = 1
SeriesVar(xs) ==
    LET n  == Len(xs)
        sm == Sum(xs)
    IN  IF n < 2 THEN NaN
        ELSE Rat(n * SumSq(xs) - sm * sm, n * (n - 1))

\* Series.std()
SeriesStd(xs) == Surd(RInt(0), 1, SeriesVar(xs))

\* c * (a + k*sqrt(v)) for an integer c
SurdScale(c, s) ==
    IF IsSurdNaN(s) THEN SurdNaN ELSE Surd(RMul(RInt(c), s[1]), c * s[2], s[3])

\* r + (a + k*sqrt(v)) for a rational r
RatPlusSurd(r, s) ==
    IF IsNaN(r) \/ IsSurdNaN(s) THEN SurdNaN ELSE Surd(RAdd(r, s[1]), s[2], s[3])

RECURSIVE Distinct(_)
\* the distinct cells of s in first-encountered order
Distinct(s) ==
    IF s = <<>> THEN <<>>
    ELSE <<Head(s)>> \o Distinct(SelectSeq(Tail(s), LAMBDA c : c # Head(s)))

\* Series.value_counts(): <<cell, count>> of the non-null cells, most frequent
\* first.  The counts are sorted by sort_values' default quicksort, which is
\* not a stable sort: where two cells are equally frequent their order is
\* whatever the numpy build at hand leaves, ties[i] being the place it gives
\* the i-th cell encountered.
ValueCounts(s) ==
    LET d == Distinct(DropNa(s))
        counted == [i \in 1..Len(d) |->
                       <<d[i], Len(SelectSeq(s, LAMBDA c : c = d[i])), ties[i]>>]
        sorted == SortSeq(counted, LAMBDA x, y :
                      x[2] > y[2] \/ (x[2] = y[2] /\ x[3] < y[3]))
    IN  [i \in 1..Len(sorted) |-> <<sorted[i][1], sorted[i][2]>>]

-----------------------------------------------------------------------------
(* DataProfiler._profile_column *)

\* pd.api.types.is_numeric_dtype
IsNumericDtype(dtype) == dtype = "float64"

\* pd.api.types.is_datetime64_any_dtype
IsDatetimeDtype(dtype) == dtype = "datetime64[ns]"

\* str(Timestamp): 'NaT' for a missing one
StrTimestamp(c) == IF IsNull(c) THEN "NaT" ELSE ToString(c[1])

\* CellMin that takes the first timestamp for the earliest
CellFirst(s) == IF s = <<>> THEN Null ELSE s[1]

\* min()/max() of a datetime column as a cell, NaT when nothing is left
CellMin(s) == IF s = <<>> THEN Null ELSE <<Sorted(Values(s))[1]>>

CellMax(s) == IF s = <<>> THEN Null ELSE <<Sorted(Values(s))[Len(s)]>>

\* the exception _profile_column raises on this column, "none" if it returns
ProfileColumnRaises(col) ==
    IF \E i \in 1..Len(col.vals) : col.vals[i] = UnhashableCell
        THEN "TypeError"             \* nunique() hashes the cells
    ELSE IF IsNumericDtype(col.dtype) /\ Len(col.vals) = 0
        THEN "ZeroDivisionError"     \* len(outliers) / len(col_data)
    ELSE "none"

\* BaseProfile with the nulls set against the cells that are not null
BaseProfileOverValues(col) ==
    LET nulls == Len(SelectSeq(col.vals, IsNull))
    IN  [dtype           |-> col.dtype,
         null_count      |-> nulls,
         null_percentage |-> RMul(Rat(nulls, Len(col.vals) - nulls), RInt(100)),
         unique_count    |-> NUnique(col.vals),
         sample_values   |-> SeqHead(DropNa(col.vals), 5)]

\* the five entries every column gets
BaseProfile(col) ==
    LET nulls == Len(SelectSeq(col.vals, IsNull))
    IN  [dtype           |-> col.dtype,
         null_count      |-> nulls,
         null_percentage |-> RMul(Rat(nulls, Len(col.vals)), RInt(100)),
         unique_count    |-> NUnique(col.vals),
         sample_values   |-> SeqHead(DropNa(col.vals), 5)]

\* the bounds suggested from mean and standard deviation
SuggestedMin(mean, std) == RatPlusSurd(mean, SurdScale(-3, std))

SuggestedMax(mean, std) == RatPlusSurd(mean, SurdScale(3, std))

\* LowerBound with the interquartile range taken once, not one and a half times
LowerBoundNarrow(q1, q3) == RSub(q1, RSub(q3, q1))

\* lower_bound = q1 - 1.5 * iqr
LowerBound(q1, q3) == RSub(q1, RMul(Rat(3, 2), RSub(q3, q1)))

\* UpperBound with the interquartile range taken once, not one and a half times
UpperBoundNarrow(q1, q3) == RAdd(q3, RSub(q3, q1))

\* upper_bound = q3 + 1.5 * iqr
UpperBound(q1, q3) == RAdd(q3, RMul(Rat(3, 2), RSub(q3, q1)))

\* IsOutlier with the bounds themselves counted
IsOutlierInclusive(x, lower, upper) == RLe(RInt(x), lower) \/ RLe(upper, RInt(x))

\* (col_data < lower_bound) | (col_data > upper_bound) on one value
IsOutlier(x, lower, upper) == RLt(RInt(x), lower) \/ RLt(upper, RInt(x))

\* the entries of a numeric column
NumericProfile(col) ==
    LET xs    == Values(DropNa(col.vals))
        srt   == Sorted(xs)
        q1    == SeriesQuantile(srt, 1, 4)
        q3    == SeriesQuantile(srt, 3, 4)
        lower == LowerBound(q1, q3)
        upper == UpperBound(q1, q3)
        outl  == Len(SelectSeq(xs, LAMBDA x : IsOutlier(x, lower, upper)))
        mean  == SeriesMean(xs)
        std   == SeriesStd(xs)
    IN  [min                |-> SeriesMin(srt),
         max                |-> SeriesMax(srt),
         mean               |-> mean,
         median             |-> SeriesMedian(srt),
         std                |-> std,
         q1                 |-> q1,
         q3                 |-> q3,
         outlier_count      |-> outl,
         outlier_percentage |-> RMul(Rat(outl, Len(col.vals)), RInt(100)),
         suggested_min      |-> SuggestedMin(mean, std),
         suggested_max      |-> SuggestedMax(mean, std)]

\* the entries of a datetime column
DatetimeProfile(col) ==
    [min_date |-> StrTimestamp(CellMin(DropNa(col.vals))),
     max_date |-> StrTimestamp(CellMax(DropNa(col.vals)))]

\* the entry of any other column
CategoricalProfile(col) ==
    [most_common |-> SeqHead(ValueCounts(col.vals), 5)]

\* dict.update: the entries of r, then those of u
Update(r, u) ==
    [k \in DOMAIN r \cup DOMAIN u |-> IF k \in DOMAIN u THEN u[k] ELSE r[k]]

\* ProfileColumn that takes an object column holding nothing but numbers for
\* a numeric one
ProfileColumnByValues(col) ==
    IF IsNumericDtype(col.dtype)
       \/ (/\ ~IsDatetimeDtype(col.dtype)
           /\ DropNa(col.vals) # <<>>
           /\ \A i \in 1..Len(col.vals) : col.vals[i] \in {Null, <<0>>})
        THEN Update(BaseProfile(col), NumericProfile(col))
    ELSE IF IsDatetimeDtype(col.dtype)
        THEN Update(BaseProfile(col), DatetimeProfile(col))
    ELSE Update(BaseProfile(col), CategoricalProfile(col))

\* the dict _profile_column returns when it does not raise
ProfileColumn(col) ==
    IF IsNumericDtype(col.dtype)
        THEN Update(BaseProfile(col), NumericProfile(col))
    ELSE IF IsDatetimeDtype(col.dtype)
        THEN Update(BaseProfile(col), DatetimeProfile(col))
    ELSE Update(BaseProfile(col), CategoricalProfile(col))

-----------------------------------------------------------------------------
(* Python dicts: insertion-ordered, a sequence of <<key, value>> *)

DictKeys(d) == [i \in 1..Len(d) |-> d[i][1]]

HasKey(d, k) == \E i \in 1..Len(d) : d[i][1] = k

\* DictSet that never replaces: every store adds an entry
DictSetAppend(d, k, v) == Append(d, <<k, v>>)

\* d[k] = v: a present key keeps its place, a new key goes last
DictSet(d, k, v) ==
    IF HasKey(d, k)
        THEN [i \in 1..Len(d) |-> IF d[i][1] = k THEN <<k, v>> ELSE d[i]]
    ELSE Append(d, <<k, v>>)

\* the last two outcomes, the newest last
Remember(log, x) == IF Len(log) < 2 THEN Append(log, x) ELSE <<log[2], x>>

-----------------------------------------------------------------------------
(* DataProfiler.generate_profile *)

\* the index of the first column on which _profile_column raises, 0 if none
FirstRaising(t) ==
    LET bad == {i \in 1..Len(t) : ProfileColumnRaises(t[i]) # "none"}
    IN  IF bad = {} THEN 0 ELSE CHOOSE i \in bad : \A j \in bad : i <= j

RECURSIVE ProfileColumnsSkippingEmpty(_, _, _)
\* ProfileColumns that stores nothing for a column without a value
ProfileColumnsSkippingEmpty(d, t, n) ==
    IF n = 0 THEN d
    ELSE IF DropNa(t[n].vals) = <<>> THEN ProfileColumnsSkippingEmpty(d, t, n - 1)
    ELSE DictSet(ProfileColumnsSkippingEmpty(d, t, n - 1), t[n].name,
                 ProfileColumn(t[n]))

RECURSIVE ProfileColumns(_, _, _)
\* self.profile after the loop has stored the first n columns of t into d
ProfileColumns(d, t, n) ==
    IF n = 0 THEN d
    ELSE DictSet(ProfileColumns(d, t, n - 1), t[n].name, ProfileColumn(t[n]))

\* GenerateProfile that fills the nulls of the caller's table with 0 as it goes
GenerateProfileFillingNulls ==
    LET at   == FirstRaising(df)
        done == IF at = 0 THEN Len(df) ELSE at - 1
        new  == ProfileColumns(profile, df, done)
    IN  /\ profile' = new
        /\ profiled' = (profiled \/ at = 0)
        /\ gens' = Remember(gens,
                     IF at = 0
                     THEN [raised |-> "none", value |-> new]
                     ELSE [raised |-> ProfileColumnRaises(df[at]), value |-> <<>>])
        /\ df' = [c \in 1..Len(df) |->
                    [df[c] EXCEPT !.vals =
                        [r \in 1..Len(@) |-> IF IsNull(@[r]) THEN <<0>> ELSE @[r]]]]
        /\ UNCHANGED <<sugs, edits, ties>>

GenerateProfile ==
    LET at   == FirstRaising(df)
        done == IF at = 0 THEN Len(df) ELSE at - 1
        new  == ProfileColumns(profile, df, done)
    IN  /\ profile' = new
        /\ profiled' = (profiled \/ at = 0)
        /\ gens' = Remember(gens,
                     IF at = 0
                     THEN [raised |-> "none", value |-> new]
                     ELSE [raised |-> ProfileColumnRaises(df[at]), value |-> <<>>])
        /\ UNCHANGED <<df, sugs, edits, ties>>

-----------------------------------------------------------------------------
(* String formatting *)

\* h hundredths written with two decimals, as '%.2f' writes them
FmtHundredths(neg, h) ==
    (IF neg THEN "-" ELSE "") \o ToString(h \div 100) \o "."
        \o ToString((h % 100) \div 10) \o ToString(h % 10)

\* f"{x:.2f}" of a rational: rounded to the nearest hundredth, ties to even
Fmt2(x) ==
    IF IsNaN(x) THEN "nan"
    ELSE LET n == 100 * Abs(x[1])
             q == n \div x[2]
             r == n % x[2]
             h == IF 2 * r > x[2] THEN q + 1
                  ELSE IF 2 * r = x[2] THEN q + (q % 2)
                  ELSE q
         IN  FmtHundredths(x[1] < 0, h)

\* the greatest integer m <= a + k*sqrt(v), for k # 0 and v no square
SurdFloor(s) ==
    LET k2v == RMul(RInt(s[2] * s[2]), s[3])
        r   == ISqrt(k2v[1] \div k2v[2])            \* r <= |k|*sqrt(v) < r + 1
        a   == s[1][1] \div s[1][2]                 \* a <= s[1] < a + 1
        lo  == IF s[2] > 0 THEN a + r ELSE a - r - 1
    IN  CHOOSE m \in lo..(lo + 2) :
            /\ RatLeSurd(RInt(m), s)
            /\ ~RatLeSurd(RInt(m + 1), s)

\* f"{x:.2f}" of a number a + k*sqrt(v)
Fmt2Surd(s) ==
    IF IsSurdNaN(s) THEN "nan"
    ELSE IF s[2] = 0 THEN Fmt2(s[1])
    ELSE LET neg == SurdLeRat(s, RInt(0))
             abs == IF neg THEN <<RSub(RInt(0), s[1]), -s[2], s[3]>> ELSE s
             h   == SurdFloor(<<RAdd(RMul(RInt(100), abs[1]), Rat(1, 2)),
                                100 * abs[2], abs[3]>>)
         IN  FmtHundredths(neg, h)

\* str.upper() of a severity
Upper(sev) == IF sev = "warning" THEN "WARNING" ELSE "ERROR"

-----------------------------------------------------------------------------
(* DataProfiler.suggest_quality_rules *)

\* self.df[column]: the column of that name, <<>> for a KeyError
Lookup(t, column) == SelectSeq(t, LAMBDA c : c.name = column)

\* NotNullRule with the number of nulls in the place of their percentage
NotNullRuleWithCount(column, p) ==
    [rule        |-> "not_null",
     description |-> column \o " should not be null (currently "
                       \o ToString(p.null_count) \o "% null)"]

NotNullRule(column, p) ==
    [rule        |-> "not_null",
     description |-> column \o " should not be null (currently "
                       \o Fmt2(p.null_percentage) \o "% null)"]

\* ValueRangeRule with the bounds clamped to the smallest and largest value
ValueRangeRuleClamped(column, p) ==
    [rule        |-> "value_range",
     min         |-> IF SurdLeRat(p.suggested_min, p.min)
                     THEN <<p.min, 0, RInt(0)>> ELSE p.suggested_min,
     max         |-> IF RatLeSurd(p.max, p.suggested_max)
                     THEN <<p.max, 0, RInt(0)>> ELSE p.suggested_max,
     description |-> column \o " should be between " \o Fmt2Surd(p.suggested_min)
                       \o " and " \o Fmt2Surd(p.suggested_max)]

ValueRangeRule(column, p) ==
    [rule        |-> "value_range",
     min         |-> p.suggested_min,
     max         |-> p.suggested_max,
     description |-> column \o " should be between " \o Fmt2Surd(p.suggested_min)
                       \o " and " \o Fmt2Surd(p.suggested_max)]

WarnZerosRule(column, zero_count) ==
    [rule        |-> "warn_zeros",
     description |-> column \o " has " \o ToString(zero_count)
                       \o " zero values - verify if valid",
     severity    |-> "warning"]

\* LowNulls with the bound included
LowNullsInclusive(p) == RLe(p.null_percentage, RInt(5))

\* the rule is emitted when the null percentage is low
LowNulls(p) == RLt(p.null_percentage, RInt(5))

\* ZeroCount with the missing cells counted as zeros
ZeroCountFillNa(col) == Len(SelectSeq(col.vals, LAMBDA c : c = <<0>> \/ IsNull(c)))

\* (self.df[column] == 0).sum()
ZeroCount(col) == Len(SelectSeq(col.vals, LAMBDA c : c = <<0>>))

\* ColumnRules with the range rule appended before the null rule
ColumnRulesRangeFirst(column, p, t) ==
    (IF "min" \in DOMAIN p THEN <<ValueRangeRule(column, p)>> ELSE <<>>)
    \o (IF LowNulls(p) THEN <<NotNullRule(column, p)>> ELSE <<>>)
    \o (IF "min" \in DOMAIN p /\ ZeroCount(Lookup(t, column)[1]) > 0
        THEN <<WarnZerosRule(column, ZeroCount(Lookup(t, column)[1]))>>
        ELSE <<>>)

\* column_rules of one entry of self.profile; the column is in the table
\* whenever the profile is a numeric one
ColumnRules(column, p, t) ==
    (IF LowNulls(p) THEN <<NotNullRule(column, p)>> ELSE <<>>)
    \o (IF "min" \in DOMAIN p
        THEN <<ValueRangeRule(column, p)>>
             \o (IF ZeroCount(Lookup(t, column)[1]) > 0
                 THEN <<WarnZerosRule(column, ZeroCount(Lookup(t, column)[1]))>>
                 ELSE <<>>)
        ELSE <<>>)

\* the entries of self.profile on which the loop raises KeyError
MissingColumns(d, t) ==
    {i \in 1..Len(d) : "min" \in DOMAIN d[i][2] /\ Lookup(t, d[i][1]) = <<>>}

RECURSIVE Rules(_, _, _)
\* the dict rules after the loop has visited the first n entries of self.profile
Rules(d, t, n) ==
    IF n = 0 THEN <<>>
    ELSE LET rs == ColumnRules(d[n][1], d[n][2], t)
         IN  IF rs # <<>>
             THEN DictSet(Rules(d, t, n - 1), d[n][1], rs)
             ELSE Rules(d, t, n - 1)

\* Severity with the other default
SeverityDefaultWarning(rule) ==
    IF "severity" \in DOMAIN rule THEN rule.severity ELSE "warning"

\* rule.get('severity', 'error')
Severity(rule) == IF "severity" \in DOMAIN rule THEN rule.severity ELSE "error"

\* the lines printed for the rules: the column, then one line for each rule
Printed(rules) ==
    [i \in 1..Len(rules) |->
        <<rules[i][1],
          [j \in 1..Len(rules[i][2]) |->
              "[" \o Upper(Severity(rules[i][2][j])) \o "] "
                  \o rules[i][2][j].description]>>]

SuggestQualityRules ==
    /\ sugs' = Remember(sugs,
                 IF MissingColumns(profile, df) # {}
                 THEN [raised |-> "KeyError", value |-> <<>>, printed |-> <<>>,
                       profile |-> profile, afterGen |-> profiled]
                 ELSE LET rules == Rules(profile, df, Len(profile))
                      IN  [raised |-> "none", value |-> rules,
                           printed |-> Printed(rules),
                           profile |-> profile, afterGen |-> profiled])
    /\ UNCHANGED <<df, profile, profiled, gens, edits, ties>>

-----------------------------------------------------------------------------
(* DataProfiler.__init__ *)

\* DataProfiler(df): a new profiler on the same table
NewProfiler ==
    /\ profile' = <<>>
    /\ profiled' = FALSE
    /\ UNCHANGED <<df, gens, sugs, edits, ties>>

-----------------------------------------------------------------------------
(* The tables the profiler is given *)

Names == <<"a", "b", "c">>

Dtypes == {"float64", "datetime64[ns]", "object"}

\* the cells a column of each dtype may hold
Cells(dtype) ==
    IF IsNumericDtype(dtype) THEN {Null, <<0>>, <<1>>}
    ELSE IF IsDatetimeDtype(dtype) THEN {Null, <<2>>}
    ELSE {Null, <<0>>, <<1>>, UnhashableCell}

\* a column is some leading cells followed by a run of one repeated value
HeadLens == {0, 1}

FillLens == {0, MaxFill - 1, MaxFill}

\* the values a run repeats
FillCells(dtype) == IF IsNumericDtype(dtype) THEN {<<0>>, <<1>>} ELSE {<<1>>}

\* the cells that may lead a run of f: any the dtype may hold, only nulls
\* before the run one short of MaxFill (one null in MaxFill cells)
HeadCells(dtype, f) == IF f = MaxFill - 1 THEN {Null} ELSE Cells(dtype)

Columns(h, f) ==
    UNION {{[dtype |-> d, vals |-> hd \o [i \in 1..f |-> fl]] :
                hd \in [1..h -> HeadCells(d, f)],
                fl \in IF f = 0 THEN {Null} ELSE FillCells(d)} : d \in Dtypes}

\* the tables of n columns and h + f rows
Tables(n, h, f) ==
    {[i \in 1..n |-> [name |-> Names[i], dtype |-> c[i].dtype, vals |-> c[i].vals]] :
        c \in [1..n -> Columns(h, f)]}

\* the places a sort may give to equally frequent cells: the orders of the
\* first, second and third cell encountered
Orders == {o \in [1..3 -> 1..3] : \A i, j \in 1..3 : o[i] = o[j] => i = j}

\* how often a cell occurs in a column
Occurrences(col, c) == Len(SelectSeq(col.vals, LAMBDA x : x = c))

\* a column whose values are counted holds two different cells equally often
HasTie(t) ==
    \E c \in 1..Len(t) :
        /\ ~IsNumericDtype(t[c].dtype) /\ ~IsDatetimeDtype(t[c].dtype)
        /\ \E x, y \in {t[c].vals[r] : r \in 1..Len(t[c].vals)} \ {Null} :
              x # y /\ Occurrences(t[c], x) = Occurrences(t[c], y)

\* the orders that make a difference for a table: all of them when a column
\* has equally frequent cells, else the order of encounter stands for all
TieOrders(t) == IF HasTie(t) THEN Orders ELSE {[i \in 1..3 |-> i]}

-----------------------------------------------------------------------------
(* The profiler on a table nobody changes *)

Init ==
    /\ \E n \in 0..MaxCols, h \in HeadLens, f \in FillLens : df \in Tables(n, h, f)
    /\ profile = <<>>
    /\ profiled = FALSE
    /\ gens = <<>>
    /\ sugs = <<>>
    /\ edits = 0
    /\ ties \in TieOrders(df)

Next ==
    \/ GenerateProfile
    \/ SuggestQualityRules
    \/ NewProfiler

Spec == Init /\ [][Next]_vars

-----------------------------------------------------------------------------
(* The profiler on a table its caller goes on changing: self.df is the
   caller's DataFrame itself, not a copy *)

\* the caller stores v into row r of column c
SetCell(c, r, v) ==
    /\ edits < MaxEdits
    /\ df[c].vals[r] # v
    /\ df' = [df EXCEPT ![c].vals[r] = v]
    /\ edits' = edits + 1
    /\ UNCHANGED <<profile, profiled, gens, sugs, ties>>

\* short tables, of one row at most
InitMut ==
    /\ \E n \in 0..MaxCols, h \in HeadLens : df \in Tables(n, h, 0)
    /\ profile = <<>>
    /\ profiled = FALSE
    /\ gens = <<>>
    /\ sugs = <<>>
    /\ edits = 0
    /\ ties \in TieOrders(df)

NextMut ==
    \/ GenerateProfile
    \/ SuggestQualityRules
    \/ NewProfiler
    \/ \E c \in 1..Len(df) : \E r \in 1..Len(df[c].vals) :
          \E v \in Cells(df[c].dtype) : SetCell(c, r, v)

SpecMut == InitMut /\ [][NextMut]_vars

-----------------------------------------------------------------------------
(* The profiler on a table whose caller adds and removes columns *)

\* the names no column of the table has
FreeNames(t) ==
    {Names[i] : i \in 1..Len(Names)} \ {t[c].name : c \in 1..Len(t)}

\* the caller removes column c: del df[name]
DropColumn(c) ==
    /\ edits < MaxEdits
    /\ df' = [i \in 1..(Len(df) - 1) |-> IF i < c THEN df[i] ELSE df[i + 1]]
    /\ edits' = edits + 1
    /\ UNCHANGED <<profile, profiled, gens, sugs, ties>>

\* the caller adds a column under a new name: df[name] = values
AddColumn(name, col) ==
    /\ edits < MaxEdits
    /\ name \in FreeNames(df)
    /\ df' = Append(df, [name |-> name, dtype |-> col.dtype, vals |-> col.vals])
    /\ edits' = edits + 1
    /\ UNCHANGED <<profile, profiled, gens, sugs, ties>>

NextCols ==
    \/ GenerateProfile
    \/ SuggestQualityRules
    \/ \E c \in 1..Len(df) : DropColumn(c)
    \/ \E name \in FreeNames(df) :
          \E col \in UNION {Columns(h, 0) : h \in IF df = <<>> THEN HeadLens
                                                  ELSE {Len(df[1].vals)}} :
              AddColumn(name, col)

SpecCols == InitMut /\ [][NextCols]_vars

-----------------------------------------------------------------------------
(* generate_profile on one numeric column of a few arbitrary values *)

\* the cells of such a column
NumCells == {Null, <<0>>, <<2>>, <<5>>, <<100>>}

\* the columns of at most MaxRows cells
NumColumns == UNION {[1..n -> NumCells] : n \in 0..MaxRows}

InitNum ==
    /\ \E v \in NumColumns : df = <<[name |-> "a", dtype |-> "float64", vals |-> v]>>
    /\ profile = <<>>
    /\ profiled = FALSE
    /\ gens = <<>>
    /\ sugs = <<>>
    /\ edits = 0
    /\ ties \in TieOrders(df)

NextNum ==
    \/ GenerateProfile
    \/ NewProfiler

SpecNum == InitNum /\ [][NextNum]_vars

-----------------------------------------------------------------------------
(* generate_profile on one text column of a few arbitrary values *)

\* the cells of such a column: three strings and the null
CatCells == {Null, <<1>>, <<2>>, <<3>>}

\* the columns of at most MaxRows cells
CatColumns == UNION {[1..n -> CatCells] : n \in 0..MaxRows}

InitCat ==
    /\ \E v \in CatColumns : df = <<[name |-> "a", dtype |-> "object", vals |-> v]>>
    /\ profile = <<>>
    /\ profiled = FALSE
    /\ gens = <<>>
    /\ sugs = <<>>
    /\ edits = 0
    /\ ties \in TieOrders(df)

NextCat ==
    \/ GenerateProfile
    \/ NewProfiler

SpecCat == InitCat /\ [][NextCat]_vars

-----------------------------------------------------------------------------
(* What the claims speak of *)

\* the outcomes of suggest_quality_rules that returned, called on a profiler
\* whose generate_profile had returned
Synthesized == {i \in 1..Len(sugs) : sugs[i].raised = "none" /\ sugs[i].afterGen}

\* the outcomes of suggest_quality_rules that returned
Returned == {i \in 1..Len(sugs) : sugs[i].raised = "none"}

\* the rules of a column in a returned rule dict, <<>> when it has none
RulesOf(rules, column) ==
    IF HasKey(rules, column)
    THEN rules[CHOOSE i \in 1..Len(rules) : rules[i][1] = column][2]
    ELSE <<>>

\* the kinds of a column's rules, in the order they are listed
Kinds(rs) == [j \in 1..Len(rs) |-> rs[j].rule]

\* the rules of one kind among a column's rules
OfKind(rs, kind) == SelectSeq(rs, LAMBDA r : r.rule = kind)

\* the place of a column in the table
Position(t, column) == CHOOSE i \in 1..Len(t) : t[i].name = column

Rank(kind) ==
    CASE kind = "not_null" -> 1 [] kind = "value_range" -> 2 [] kind = "warn_zeros" -> 3

NullCells(col) == Cardinality({r \in 1..Len(col.vals) : col.vals[r] = Null})

ZeroCells(col) == Cardinality({r \in 1..Len(col.vals) : col.vals[r] = <<0>>})

\* fewer than 5% of the cells of the column are null
UnderFivePercentNull(col) == 100 * NullCells(col) < 5 * Len(col.vals)

-----------------------------------------------------------------------------
(* C1: the rules come grouped by column in the table's column order, and a
   column's rules come in the order NotNull, ValueRange, WarnZeros; a numeric
   column with fewer than 5% nulls and a zero in it gets exactly these three,
   in this order. *)
C1_RuleOrder ==
    /\ \A i \in Returned :
        LET rules == sugs[i].value
        IN  /\ \A a, b \in 1..Len(rules) :
                  a < b => Position(df, rules[a][1]) < Position(df, rules[b][1])
            /\ \A a \in 1..Len(rules) :
                  \A j, k \in 1..Len(rules[a][2]) :
                      j < k => Rank(rules[a][2][j].rule) < Rank(rules[a][2][k].rule)
    /\ \A i \in Synthesized : \A c \in 1..Len(df) :
          (/\ IsNumericDtype(df[c].dtype)
           /\ UnderFivePercentNull(df[c])
           /\ ZeroCells(df[c]) > 0)
          => Kinds(RulesOf(sugs[i].value, df[c].name))
                = <<"not_null", "value_range", "warn_zeros">>

\* rules for two columns were returned, the second column with all three rules
\* although it holds a null
C1_Witness ==
    \E i \in Synthesized :
        /\ Len(sugs[i].value) = 2
        /\ Len(sugs[i].value[2][2]) = 3
        /\ NullCells(df[2]) > 0

(* C2: a column gets a NotNull rule exactly when fewer than 5% of its cells
   are null. *)
C2_NotNullIffUnderFivePercent ==
    \A i \in Synthesized : \A c \in 1..Len(df) :
        (OfKind(RulesOf(sugs[i].value, df[c].name), "not_null") # <<>>)
            <=> UnderFivePercentNull(df[c])

\* a column with a null in it, but under 5%, got its NotNull rule
C2_Witness ==
    \E i \in Synthesized : \E c \in 1..Len(df) :
        /\ NullCells(df[c]) > 0
        /\ UnderFivePercentNull(df[c])
        /\ OfKind(RulesOf(sugs[i].value, df[c].name), "not_null") # <<>>

\* mean - 3*std and mean + 3*std of a stored numeric profile
ThreeSigmaBelow(p) ==
    Surd(RSub(p.mean, RMul(RInt(3), p.std[1])), (-3) * p.std[2], p.std[3])

ThreeSigmaAbove(p) ==
    Surd(RAdd(p.mean, RMul(RInt(3), p.std[1])), 3 * p.std[2], p.std[3])

\* the stored profile of a column
ProfileOf(d, column) == d[CHOOSE i \in 1..Len(d) : d[i][1] = column][2]

(* C3: every numeric column gets exactly one ValueRange rule, whose min and
   max are the mean minus and plus three standard deviations of its profile,
   not clamped to the smallest and largest value; no other column gets one. *)
C3_ValueRangeIsThreeSigma ==
    \A i \in Synthesized : \A c \in 1..Len(df) :
        LET vr == OfKind(RulesOf(sugs[i].value, df[c].name), "value_range")
            p  == ProfileOf(sugs[i].profile, df[c].name)
        IN  IF IsNumericDtype(df[c].dtype)
            THEN /\ Len(vr) = 1
                 /\ vr[1].min = ThreeSigmaBelow(p)
                 /\ vr[1].max = ThreeSigmaAbove(p)
            ELSE vr = <<>>

\* a ValueRange rule whose min, an irrational number, lies strictly below the
\* smallest value of the column
C3_Witness ==
    \E i \in Synthesized : \E c \in 1..Len(df) :
        LET vr == OfKind(RulesOf(sugs[i].value, df[c].name), "value_range")
            p  == ProfileOf(sugs[i].profile, df[c].name)
        IN  /\ IsNumericDtype(df[c].dtype)
            /\ Len(vr) = 1
            /\ vr[1].min[2] # 0
            /\ ~RatLeSurd(p.min, vr[1].min)

(* C4: a column gets a WarnZeros rule exactly when it is numeric and holds at
   least one cell equal to zero. *)
C4_WarnZerosIffNumericWithZero ==
    \A i \in Synthesized : \A c \in 1..Len(df) :
        (OfKind(RulesOf(sugs[i].value, df[c].name), "warn_zeros") # <<>>)
            <=> (IsNumericDtype(df[c].dtype) /\ ZeroCells(df[c]) > 0)

\* a numeric column with a single zero got the rule, beside a column of
\* another dtype that holds a zero and got none
C4_Witness ==
    \E i \in Synthesized : \E c, e \in 1..Len(df) :
        /\ IsNumericDtype(df[c].dtype) /\ ZeroCells(df[c]) = 1
        /\ OfKind(RulesOf(sugs[i].value, df[c].name), "warn_zeros") # <<>>
        /\ ~IsNumericDtype(df[e].dtype) /\ ZeroCells(df[e]) > 0
        /\ OfKind(RulesOf(sugs[i].value, df[e].name), "warn_zeros") = <<>>

\* the severity each kind of rule is meant to have
ExpectedSeverity(kind) == IF kind = "warn_zeros" THEN "warning" ELSE "error"

(* C5 as claimed: every returned rule carries a severity attribute, Error for
   NotNull and ValueRange, Warning for WarnZeros. *)
C5_EveryRuleCarriesSeverity ==
    \A i \in Returned : \A a \in 1..Len(sugs[i].value) :
        \A j \in 1..Len(sugs[i].value[a][2]) :
            LET r == sugs[i].value[a][2][j]
            IN  /\ "severity" \in DOMAIN r
                /\ r.severity = ExpectedSeverity(r.rule)

(* C5 as amended: every returned rule is reported with the severity Error
   when it is a NotNull or a ValueRange rule and Warning when it is a
   WarnZeros rule; the severity is an attribute of the WarnZeros rules only,
   the other rules get it by default when they are reported. *)
C5_ReportedSeverity ==
    \A i \in Returned : \A a \in 1..Len(sugs[i].value) :
        \A j \in 1..Len(sugs[i].value[a][2]) :
            LET r == sugs[i].value[a][2][j]
            IN  /\ sugs[i].printed[a][2][j]
                      = "[" \o Upper(ExpectedSeverity(r.rule)) \o "] " \o r.description
                /\ ("severity" \in DOMAIN r) <=> (r.rule = "warn_zeros")
                /\ "severity" \in DOMAIN r => r.severity = "warning"

\* the three kinds of rule were returned and reported for one column
C5_Witness ==
    \E i \in Returned : \E a \in 1..Len(sugs[i].value) :
        /\ Len(sugs[i].value[a][2]) = 3
        /\ Len(sugs[i].printed[a][2]) = 3

\* the number of rows of a table
Rows(t) == IF t = <<>> THEN 0 ELSE Len(t[1].vals)

(* C6 as claimed: profiling a table of zero rows or zero columns fails with
   EmptyTableError, returns no profile, and no rules are produced. *)
C6_EmptyTableFails ==
    (Len(df) = 0 \/ Rows(df) = 0) =>
        /\ \A i \in 1..Len(gens) : gens[i].raised = "EmptyTableError"
        /\ profile = <<>>
        /\ \A i \in 1..Len(sugs) : sugs[i].value = <<>>

\* every cell of the column is null, and it has cells
AllNull(col) == Len(col.vals) > 0 /\ NullCells(col) = Len(col.vals)

\* the entries of a profile that hold statistics of a numeric or datetime column
StatKeys ==
    {"min", "max", "mean", "median", "std", "q1", "q3",
     "suggested_min", "suggested_max", "min_date", "max_date"}

(* C7 as claimed: an entirely null numeric or datetime column is profiled
   without a crash, with unique count 0 and the null count filled in, with
   none of the kind-specific statistics in its profile, and no ValueRange rule
   is derived for it. *)
C7_AllNullStatsAbsent ==
    \A c \in 1..Len(df) :
        (AllNull(df[c]) /\ df[c].dtype \in {"float64", "datetime64[ns]"}) =>
            /\ ProfileColumnRaises(df[c]) = "none"
            /\ HasKey(profile, df[c].name) =>
                LET p == ProfileOf(profile, df[c].name)
                IN  /\ p.unique_count = 0
                    /\ p.null_count = Len(df[c].vals)
                    /\ DOMAIN p \cap StatKeys = {}
            /\ \A i \in Returned :
                  OfKind(RulesOf(sugs[i].value, df[c].name), "value_range") = <<>>

(* C8 as claimed: when profiling one column fails, generate_profile still
   returns a profile that holds every other column of the table. *)
C8_FailureIsolated ==
    Rows(df) > 0 =>
        \A i \in 1..Len(gens) : \A c \in 1..Len(df) :
            ProfileColumnRaises(df[c]) = "none" => HasKey(gens[i].value, df[c].name)

(* C9: two runs of generate_profile on the same table, by one profiler or by
   a new one, return equal profiles, and two runs of suggest_quality_rules
   after them return equal rules. *)
C9_Idempotent ==
    /\ Len(gens) = 2 => gens[1] = gens[2]
    /\ (Len(sugs) = 2 /\ sugs[1].afterGen /\ sugs[2].afterGen) =>
          /\ sugs[1].raised = sugs[2].raised
          /\ sugs[1].value = sugs[2].value
          /\ sugs[1].printed = sugs[2].printed

\* both operations have run twice, on a table of two columns, and rules came out
C9_Witness ==
    /\ Len(gens) = 2 /\ gens[2].raised = "none" /\ Len(gens[2].value) = 2
    /\ Len(sugs) = 2 /\ sugs[1].afterGen /\ sugs[2].afterGen
    /\ Len(sugs[2].value) = 2

(* C10 as claimed: the rules are a function of the profile alone: two calls
   of suggest_quality_rules on equal stored profiles have the same outcome,
   whatever the table holds when they are made. *)
C10_RulesFunctionOfProfile ==
    \A i, j \in 1..Len(sugs) :
        sugs[i].profile = sugs[j].profile =>
            /\ sugs[i].raised = sugs[j].raised
            /\ sugs[i].value = sugs[j].value

\* the entries every column profile holds
BaseKeys == {"dtype", "null_count", "null_percentage", "unique_count", "sample_values"}

\* the entries of the numeric statistics
NumericKeys ==
    {"min", "max", "mean", "median", "std", "q1", "q3", "outlier_count",
     "outlier_percentage", "suggested_min", "suggested_max"}

\* the entries of the temporal minimum and maximum
TemporalKeys == {"min_date", "max_date"}

\* the entry of the categorical top values
CategoricalKeys == {"most_common"}

\* the block the declared type of a column calls for
BlockKeys(dtype) ==
    IF dtype = "float64" THEN NumericKeys
    ELSE IF dtype = "datetime64[ns]" THEN TemporalKeys
    ELSE CategoricalKeys

\* the generate_profile calls that returned
Generated == {i \in 1..Len(gens) : gens[i].raised = "none"}

(* C11: a column profile holds, beside the entries every profile has, the
   entries of exactly one block, numeric statistics, temporal min/max or
   categorical top values, and the declared type of the column alone says
   which: whatever cells the column holds, it is the block of its dtype. *)
C11_OneBlockByDtype ==
    \A i \in Generated : \A c \in 1..Len(df) :
        LET p == ProfileOf(gens[i].value, df[c].name)
        IN  /\ DOMAIN p = BaseKeys \cup BlockKeys(df[c].dtype)
            /\ Cardinality({b \in {NumericKeys, TemporalKeys, CategoricalKeys} :
                                b \cap DOMAIN p # {}}) = 1

\* an object column and a numeric column hold the same cells, all of them the
\* number 0, and were profiled as categorical and as numeric
C11_Witness ==
    \E i \in Generated : \E c, e \in 1..Len(df) :
        /\ df[c].dtype = "object" /\ df[e].dtype = "float64"
        /\ df[c].vals = df[e].vals
        /\ Len(df[c].vals) > 0 /\ ZeroCells(df[c]) = Len(df[c].vals)
        /\ "most_common" \in DOMAIN ProfileOf(gens[i].value, df[c].name)
        /\ "mean" \in DOMAIN ProfileOf(gens[i].value, df[e].name)

\* the column holds at least one value that is not null
HasValues(col) == NullCells(col) < Len(col.vals)

(* C12 as claimed: the profile of every numeric column that holds a value, a
   single one or several, with or without nulls beside them, has
   q1 <= median <= q3 and suggested_min <= mean <= suggested_max. *)
C12_QuartilesAndBoundsOrdered ==
    \A i \in Generated : \A c \in 1..Len(df) :
        (IsNumericDtype(df[c].dtype) /\ HasValues(df[c])) =>
            LET p == ProfileOf(gens[i].value, df[c].name)
            IN  /\ RLe(p.q1, p.median)
                /\ RLe(p.median, p.q3)
                /\ SurdLeRat(p.suggested_min, p.mean)
                /\ RatLeSurd(p.mean, p.suggested_max)

\* the number of cells of a column that are not null
ValueCells(col) == Cardinality({r \in 1..Len(col.vals) : col.vals[r] # Null})

(* C13: in the profile of every column, the null count and the number of
   cells that are not null add up to the length of the column, and the null
   fraction, kept as the percentage null_percentage = 100 * fraction, is the
   null count divided by the length; for a column without rows the division
   is 0/0 and the percentage is NaN. *)
C13_NullCountAndFraction ==
    \A i \in Generated : \A c \in 1..Len(df) :
        LET p == ProfileOf(gens[i].value, df[c].name)
            n == Len(df[c].vals)
        IN  /\ p.null_count + ValueCells(df[c]) = n
            /\ IF n = 0 THEN IsNaN(p.null_percentage)
               ELSE /\ ~IsNaN(p.null_percentage)
                    /\ p.null_percentage[1] * n
                          = 100 * p.null_count * p.null_percentage[2]

\* a column with a null among twenty values and more was profiled
C13_Witness ==
    \E i \in Generated : \E c \in 1..Len(df) :
        /\ ProfileOf(gens[i].value, df[c].name).null_count = 1
        /\ ValueCells(df[c]) >= 20

\* the numbers of a column, its nulls left out, in column order
Numbers(col) == Values(DropNa(col.vals))

\* how many of the numbers of a column differ from the rational q
Differing(col, q) ==
    Cardinality({r \in 1..Len(col.vals) :
                    col.vals[r] # Null /\ RInt(col.vals[r][1]) # q})

(* C14: for a numeric column with q1 = q3 the outlier count is the number of
   its values that differ from that quartile; a column of one value repeated
   at least twice has std 0 and no outlier: [5,5,5,5,5] has std 0 and outlier
   count 0, and [5,5,5,5,100] has outlier count 1. *)
C14_ZeroIqrOutliers ==
    \A i \in Generated : \A c \in 1..Len(df) :
        LET p == ProfileOf(gens[i].value, df[c].name)
        IN  IsNumericDtype(df[c].dtype) =>
              /\ (~IsNaN(p.q1) /\ p.q1 = p.q3) =>
                    p.outlier_count = Differing(df[c], p.q1)
              /\ (Len(Numbers(df[c])) >= 2 /\ Differing(df[c], p.q1) = 0) =>
                    p.std = <<RInt(0), 0, RInt(0)>> /\ p.outlier_count = 0
              /\ df[c].vals = <<<<5>>, <<5>>, <<5>>, <<5>>, <<5>>>> =>
                    p.std = <<RInt(0), 0, RInt(0)>> /\ p.outlier_count = 0
              /\ df[c].vals = <<<<5>>, <<5>>, <<5>>, <<5>>, <<100>>>> =>
                    p.q1 = RInt(5) /\ p.q3 = RInt(5) /\ p.outlier_count = 1

\* the column [5,5,5,5,100] was profiled
C14_Witness ==
    \E i \in Generated :
        /\ df[1].vals = <<<<5>>, <<5>>, <<5>>, <<5>>, <<100>>>>
        /\ ProfileOf(gens[i].value, df[1].name).outlier_count = 1

(* C15 as claimed: a profile that generate_profile has returned never changes
   afterwards.  The dict returned is self.profile itself, so on a profiler
   whose generate_profile has returned (profiled) the contents of the returned
   profile are those of self.profile, and no later call on that profiler,
   generate_profile or suggest_quality_rules, may change them. *)
C15_ReturnedProfileFrozen ==
    [][(profiled /\ profiled') => profile' = profile]_vars

(* C16: no step of the profiler, generate_profile with the _profile_column
   calls it makes, suggest_quality_rules, or the construction of a profiler,
   changes the table: its columns, their order and every cell stay as they
   were. *)
C16_TableUntouched == [][df' = df]_vars

\* both operations have run twice on a table of two columns that holds nulls
C16_Witness ==
    /\ Len(gens) = 2 /\ Len(sugs) = 2
    /\ Len(df) = 2
    /\ \E c \in 1..Len(df) : NullCells(df[c]) > 0

\* the column names of a table, in column order
ColumnNames(t) == [c \in 1..Len(t) |-> t[c].name]

(* C17: the profile generate_profile returns for a table that has columns
   and rows has one entry for each column of the table and no other, under
   the name of the column, and lists them in the column order of the table. *)
C17_OneEntryPerColumnInOrder ==
    \A i \in Generated :
        (Len(df) > 0 /\ Rows(df) > 0) =>
            /\ DictKeys(gens[i].value) = ColumnNames(df)
            /\ \A c \in 1..Len(df) :
                  gens[i].value[c][2].null_count = NullCells(df[c])

\* the profile of a table of two columns, the first of them without a value,
\* was returned a second time by the same profiler
C17_Witness ==
    /\ Len(gens) = 2 /\ gens[1].raised = "none" /\ gens[2].raised = "none"
    /\ profiled
    /\ Len(df) = 2 /\ AllNull(df[1])
    /\ Len(gens[2].value) = 2

\* the share of null cells of a column, in percent
NullPercent(col) == Rat(100 * NullCells(col), Len(col.vals))

\* the description of a NotNull rule that embeds h hundredths of a percent
NotNullText(column, h) ==
    column \o " should not be null (currently " \o FmtHundredths(FALSE, h)
        \o "% null)"

\* the hundredths on either side of the percentage x
Figures(x) == LET lo == (100 * x[1]) \div x[2] IN {lo, lo + 1}

\* h hundredths is the percentage x itself
ExactFigure(h, x) == Rat(h, 100) = x

\* h hundredths is a multiple of 0.01 nearest to the percentage x
NearestFigure(h, x) == 2 * Abs(h * x[2] - 100 * x[1]) <= x[2]

(* C18 as claimed: the description of a NotNull rule embeds the exact share
   of nulls of its column, neither rounded nor truncated. *)
C18_ExactFractionEmbedded ==
    \A i \in Synthesized : \A c \in 1..Len(df) :
        LET nn == OfKind(RulesOf(sugs[i].value, df[c].name), "not_null")
        IN  nn # <<>> =>
              \E h \in Figures(NullPercent(df[c])) :
                  /\ ExactFigure(h, NullPercent(df[c]))
                  /\ nn[1].description = NotNullText(df[c].name, h)

(* C18 as amended: the description of a NotNull rule embeds the share of
   nulls of its column in percent, rounded to two decimals. *)
C18_RoundedPercentageEmbedded ==
    \A i \in Synthesized : \A c \in 1..Len(df) :
        LET nn == OfKind(RulesOf(sugs[i].value, df[c].name), "not_null")
        IN  nn # <<>> =>
              \E h \in Figures(NullPercent(df[c])) :
                  /\ NearestFigure(h, NullPercent(df[c]))
                  /\ nn[1].description = NotNullText(df[c].name, h)

\* a NotNull rule for a column whose share of nulls is no multiple of 0.01%
C18_Witness ==
    \E i \in Synthesized : \E c \in 1..Len(df) :
        /\ OfKind(RulesOf(sugs[i].value, df[c].name), "not_null") # <<>>
        /\ \A h \in Figures(NullPercent(df[c])) : ~ExactFigure(h, NullPercent(df[c]))

\* the population variance of a sequence of numbers: divisor n
PopulationVar(xs) ==
    IF xs = <<>> THEN NaN
    ELSE Rat(Len(xs) * SumSq(xs) - Sum(xs) * Sum(xs), Len(xs) * Len(xs))

\* the q-th quartile, q = 1 or 3, by linear interpolation between the order
\* statistics on either side of the position (n - 1) * q / 4
LinearQuartile(xs, q) ==
    LET srt == Sorted(xs)
        k   == ((Len(xs) - 1) * q) \div 4
        r   == ((Len(xs) - 1) * q) % 4
    IN  IF r = 0 THEN RInt(srt[k + 1])
        ELSE Rat((4 - r) * srt[k + 1] + r * srt[k + 2], 4)

(* C19 as claimed: std is the population standard deviation of the values of
   the column that are not null, 0 for a single value, and q1 and q3 are the
   quartiles by linear interpolation between order statistics. *)
C19_PopulationStdLinearQuartiles ==
    \A i \in Generated : \A c \in 1..Len(df) :
        (IsNumericDtype(df[c].dtype) /\ HasValues(df[c])) =>
            LET p == ProfileOf(gens[i].value, df[c].name)
            IN  /\ p.std = Surd(RInt(0), 1, PopulationVar(Numbers(df[c])))
                /\ p.q1 = LinearQuartile(Numbers(df[c]), 1)
                /\ p.q3 = LinearQuartile(Numbers(df[c]), 3)

\* x < q1 - 1.5 * (q3 - q1), in whole numbers: 2x < 5*q1 - 3*q3
BelowFence(x, q1, q3) ==
    ~IsNaN(q1) /\ ~IsNaN(q3)
        /\ 2 * x * q1[2] * q3[2] < 5 * q1[1] * q3[2] - 3 * q3[1] * q1[2]

\* x > q3 + 1.5 * (q3 - q1), in whole numbers: 2x > 5*q3 - 3*q1
AboveFence(x, q1, q3) ==
    ~IsNaN(q1) /\ ~IsNaN(q3)
        /\ 2 * x * q1[2] * q3[2] > 5 * q3[1] * q1[2] - 3 * q1[1] * q3[2]

\* x lies on one of the two fences
OnFence(x, q1, q3) ==
    ~IsNaN(q1) /\ ~IsNaN(q3)
        /\ \/ 2 * x * q1[2] * q3[2] = 5 * q1[1] * q3[2] - 3 * q3[1] * q1[2]
           \/ 2 * x * q1[2] * q3[2] = 5 * q3[1] * q1[2] - 3 * q1[1] * q3[2]

\* the cells of a column that hold a number strictly outside the fences
Outside(col, q1, q3) ==
    {r \in 1..Len(col.vals) :
        /\ col.vals[r] # Null
        /\ BelowFence(col.vals[r][1], q1, q3) \/ AboveFence(col.vals[r][1], q1, q3)}

(* C20: the outlier count of a numeric column is the number of its values
   strictly below q1 - 1.5*IQR or strictly above q3 + 1.5*IQR, the quartiles
   being those of its profile: a value on a fence and a null are not counted,
   and mean and std have no part in it. *)
C20_OutlierCountByIqrFences ==
    \A i \in Generated : \A c \in 1..Len(df) :
        IsNumericDtype(df[c].dtype) =>
            LET p == ProfileOf(gens[i].value, df[c].name)
            IN  p.outlier_count = Cardinality(Outside(df[c], p.q1, p.q3))

\* a value of the column lies on a fence, away from the quartiles, and is not
\* counted
C20_Witness ==
    \E i \in Generated :
        LET p == ProfileOf(gens[i].value, df[1].name)
        IN  /\ p.q1 # p.q3
            /\ \E r \in 1..Len(df[1].vals) :
                  df[1].vals[r] # Null /\ OnFence(df[1].vals[r][1], p.q1, p.q3)
            /\ p.outlier_count < Len(Numbers(df[1]))

\* the row at which a cell is first encountered in a column
FirstRow(col, x) == CHOOSE r \in 1..Len(col.vals) :
                        col.vals[r] = x /\ \A q \in 1..(r - 1) : col.vals[q] # x

\* x comes before y among the top values: it is more frequent, or as frequent
\* and encountered first
Before(col, x, y) ==
    \/ Occurrences(col, x) > Occurrences(col, y)
    \/ Occurrences(col, x) = Occurrences(col, y) /\ FirstRow(col, x) < FirstRow(col, y)

\* the different cells of a column that are not null
DistinctValues(col) == {col.vals[r] : r \in 1..Len(col.vals)} \ {Null}

(* C21 as claimed: the top values of a text column are its 5 most frequent
   values that are not null, or all of them when there are fewer, each with
   the number of its occurrences, the more frequent first and, among equally
   frequent values, the one encountered first in the column first. *)
C21_TopValuesTiesByEncounter ==
    \A i \in Generated : \A c \in 1..Len(df) :
        df[c].dtype = "object" =>
            LET mc == ProfileOf(gens[i].value, df[c].name).most_common
                listed == {mc[j][1] : j \in 1..Len(mc)}
            IN  /\ Len(mc) = IF Cardinality(DistinctValues(df[c])) < 5
                             THEN Cardinality(DistinctValues(df[c])) ELSE 5
                /\ Cardinality(listed) = Len(mc)
                /\ listed \subseteq DistinctValues(df[c])
                /\ \A j \in 1..Len(mc) : mc[j][2] = Occurrences(df[c], mc[j][1])
                /\ \A j, k \in 1..Len(mc) :
                      j < k => Before(df[c], mc[j][1], mc[k][1])
                /\ \A x \in listed : \A y \in DistinctValues(df[c]) \ listed :
                      Before(df[c], x, y)

\* the row of the k-th cell of a column that is not null
ValueRow(col, k) ==
    CHOOSE r \in 1..Len(col.vals) :
        /\ col.vals[r] # Null
        /\ Cardinality({q \in 1..r : col.vals[q] # Null}) = k

\* a stored profile with the sample values of every column taken out
WithoutSamples(d) ==
    [n \in 1..Len(d) |-> <<d[n][1], [d[n][2] EXCEPT !.sample_values = <<>>]>>]

(* C22: in the profile of every column, of any dtype, the sample values are
   the first 5 cells that are not null, in column order, or all of them when
   there are fewer, and the unique count is the number of different cells
   that are not null; the rules are the same with the sample values taken
   out of the profile. *)
C22_SamplesAndUniqueCount ==
    /\ \A i \in Generated : \A c \in 1..Len(df) :
          LET p == ProfileOf(gens[i].value, df[c].name)
              k == IF ValueCells(df[c]) < 5 THEN ValueCells(df[c]) ELSE 5
          IN  /\ Len(p.sample_values) = k
              /\ \A j \in 1..k : p.sample_values[j] = df[c].vals[ValueRow(df[c], j)]
              /\ p.unique_count = Cardinality(DistinctValues(df[c]))
    /\ \A i \in Synthesized :
          sugs[i].value
              = Rules(WithoutSamples(sugs[i].profile), df, Len(sugs[i].profile))

\* a column of more than 5 values, the first of them unlike the others and a
\* null elsewhere in the table, was profiled and rules were derived
C22_Witness ==
    \E i \in Generated : \E c \in 1..Len(df) :
        /\ ValueCells(df[c]) > 5
        /\ Cardinality(DistinctValues(df[c])) = 2
        /\ Len(ProfileOf(gens[i].value, df[c].name).sample_values) = 5
        /\ \E e \in 1..Len(df) : NullCells(df[e]) > 0
        /\ Synthesized # {}

\* the timestamps of a column, its nulls left out
Timestamps(col) == {col.vals[r][1] : r \in {q \in 1..Len(col.vals) : col.vals[q] # Null}}

(* C23: the profile of a datetime column holds, beside the entries every
   profile has, the earliest and the latest timestamp of the column and
   nothing else, no mean, std, quartiles, outlier count or suggested bounds,
   and the rules derived for such a column are a NotNull rule or none. *)
C23_TemporalMinMaxOnly ==
    \A c \in 1..Len(df) :
        IsDatetimeDtype(df[c].dtype) =>
            /\ \A i \in Generated :
                  LET p == ProfileOf(gens[i].value, df[c].name)
                  IN  /\ DOMAIN p = BaseKeys \cup {"min_date", "max_date"}
                      /\ \A t \in Timestamps(df[c]) :
                            /\ \E lo \in Timestamps(df[c]) :
                                  lo <= t /\ p.min_date = ToString(lo)
                            /\ \E hi \in Timestamps(df[c]) :
                                  t <= hi /\ p.max_date = ToString(hi)
            /\ \A i \in Synthesized :
                  Kinds(RulesOf(sugs[i].value, df[c].name)) \in {<<>>, <<"not_null">>}

\* a datetime column that starts with its latest timestamp was profiled and
\* got its NotNull rule
C23_Witness ==
    \E i \in Synthesized : \E c \in 1..Len(df) :
        /\ IsDatetimeDtype(df[c].dtype)
        /\ ProfileOf(sugs[i].profile, df[c].name).min_date
              # ProfileOf(sugs[i].profile, df[c].name).max_date
        /\ Kinds(RulesOf(sugs[i].value, df[c].name)) = <<"not_null">>

(* C24 as claimed: suggest_quality_rules returns without raising, and
   returns no rules, as long as no generate_profile call has completed on the
   profiler: rules appear only after one has. *)
C24_NoRulesBeforeGenerate ==
    \A i \in 1..Len(sugs) :
        ~sugs[i].afterGen => sugs[i].raised = "none" /\ sugs[i].value = <<>>

\* the names of the columns of a table
NameSet(t) == {t[c].name : c \in 1..Len(t)}

\* the keys of an ordered dict
KeySet(d) == {d[n][1] : n \in 1..Len(d)}

(* C25 as claimed: whatever columns the caller has added to or removed from
   the table, a generate_profile call that returns leaves a stored profile
   with entries for columns of the table only, and a suggest_quality_rules
   call returns, without raising, rules for columns of the table only. *)
C25_OnlyCurrentColumns ==
    [][/\ (GenerateProfile /\ gens'[Len(gens')].raised = "none")
            => KeySet(profile') \subseteq NameSet(df')
       /\ SuggestQualityRules
            => /\ sugs'[Len(sugs')].raised = "none"
               /\ KeySet(sugs'[Len(sugs')].value) \subseteq NameSet(df')]_vars

=============================================================================
